---- MODULE Spec2Model ----
(***************************************************************************)
(* Model of the go-gameid comparison scripts:                              *)
(*   scripts/run_comparison_tests.py  (runner, normalizer, diff, report)   *)
(*   scripts/create_test_samples.py   (fixture synthesis)                  *)
(* Python str values are sequences of one-character strings; bytes values  *)
(* are sequences of integers 0..255.                                       *)
(***************************************************************************)
EXTENDS Integers, Sequences, FiniteSets, TLC

VARIABLES
    nv,             \* normalize_value probe: [pc, x, once, twice]
    pc,             \* position of run_comparison_tests.main / of the function under test
    test_files,     \* find_test_files(): sequence of [console, filepath]
    current_test,   \* run_tests: number of cases started
    go_result,      \* run_tests: outcome of run_go_gameid for the current case
    python_result,  \* run_tests: outcome of run_python_gameid for the current case
    comparison,     \* compare_results(go_result, python_result)
    results,        \* run_tests: list of test_result
    report,         \* generate_report: the value returned / the fault raised
    artifacts,      \* files under comparison_results/ written so far
    exit_code,      \* sys.exit status of main, -1 while running
    running,        \* run_command: the child processes that are alive
    log,            \* run_command: its calls and returns so far, oldest first
    captured,       \* the (returncode, stdout, stderr) handed to a runner on its own
    spc,            \* create_test_samples.main: [sample, stage, k]
    data,           \* the bytearray of the creator that is running
    checksum,       \* create_gb_sample / create_snes_sample: local checksum
    files,          \* testdata/: relative path -> bytes written
    dirs,           \* testdata/: the console directories that exist
    iso_args        \* create_basic_iso on its own: [system_id, volume_id]

vars == <<nv, pc, test_files, current_test, go_result, python_result, comparison,
          results, report, artifacts, exit_code, running, log, captured,
          spc, data, checksum, files, dirs, iso_args>>

harnessVars == <<pc, test_files, current_test, go_result, python_result, comparison,
                 results, report, artifacts, exit_code, running, log, captured>>

sampleVars == <<spc, data, checksum, files, dirs, iso_args>>

----------------------------------------------------------------------------
(* Bounds                                                                  *)

\* longest string over Alphabet fed to normalize_value
MaxLen == 4
\* number of distinct field names an identification program may print
MaxKeys == 2
\* number of sample files find_test_files may find
MaxFiles == 2
\* longest list of results handed to generate_report on its own
MaxResults == 2
\* longest standard output handed to the output parser on its own
MaxOut == 4
\* longest system or volume identifier handed to create_basic_iso on its own
MaxIdLen == 33

----------------------------------------------------------------------------
(* Python values                                                           *)

\* Python None
None == [tag |-> "None"]

\* a Python str s held where None is also possible
Str(s) == [tag |-> "str", s |-> s]

\* truthiness of an Optional[str]: None and "" are falsy
Truthy(v) == v.tag = "str" /\ v.s # <<>>

Min(a, b) == IF a < b THEN a ELSE b

Max(a, b) == IF a > b THEN a ELSE b

UpperCase == <<"A","B","C","D","E","F","G","H","I","J","K","L","M",
               "N","O","P","Q","R","S","T","U","V","W","X","Y","Z">>

LowerCase == <<"a","b","c","d","e","f","g","h","i","j","k","l","m",
               "n","o","p","q","r","s","t","u","v","w","x","y","z">>

\* str.strip() with no argument removes ASCII whitespace from both ends
Whitespace == {" ", "\t", "\n", "\r"}

\* the lower-case letter of each upper-case ASCII letter
LowerTable ==
    [c \in { UpperCase[i] : i \in 1..Len(UpperCase) } |->
        LowerCase[CHOOSE i \in 1..Len(UpperCase) : UpperCase[i] = c]]

lower_char(c) == IF c \in DOMAIN LowerTable THEN LowerTable[c] ELSE c

\* str.lower()
lower(s) == [i \in 1..Len(s) |-> lower_char(s[i])]

RECURSIVE lstrip(_)
lstrip(s) ==
    IF s # <<>> /\ Head(s) \in Whitespace THEN lstrip(Tail(s)) ELSE s

RECURSIVE rstrip(_)
rstrip(s) ==
    IF s # <<>> /\ s[Len(s)] \in Whitespace
    THEN rstrip(SubSeq(s, 1, Len(s) - 1))
    ELSE s

\* str.strip()
strip(s) == rstrip(lstrip(s))

\* str.startswith(prefix)
startswith(s, prefix) ==
    Len(s) >= Len(prefix) /\ SubSeq(s, 1, Len(prefix)) = prefix

\* the list ["", "none", "null"] of normalize_value
NullSynonyms == { <<>>, <<"n","o","n","e">>, <<"n","u","l","l">> }

----------------------------------------------------------------------------
(* run_comparison_tests.normalize_value                                    *)

\* a slip that tests for the null synonyms before trimming
normalize_value_null_before_strip(value) ==
    IF lower(value) \in NullSynonyms
    THEN <<"N","o","n","e">>
    ELSE IF startswith(strip(value), <<"0","x">>)
         THEN lower(strip(value))
         ELSE strip(value)

\* every value of a field map is a str, so the isinstance test is always true
\* a slip that compares values without regard to case
normalize_value_lower_all(value) ==
    LET v == strip(value)
    IN  IF lower(v) \in NullSynonyms THEN <<"N","o","n","e">> ELSE lower(v)

normalize_value(value) ==
    LET v == strip(value)
    IN  IF lower(v) \in NullSynonyms
        THEN <<"N","o","n","e">>
        ELSE IF startswith(v, <<"0","x">>)
             THEN lower(v)
             ELSE v

----------------------------------------------------------------------------
(* run_comparison_tests.run_go_gameid / run_python_gameid                  *)

\* "x in s" for a character
contains(s, c) == \E i \in 1..Len(s) : s[i] = c

\* index of the first occurrence of c in s
find(s, c) == CHOOSE i \in 1..Len(s) : s[i] = c /\ \A j \in 1..(i - 1) : s[j] # c

RECURSIVE split(_, _)
\* str.split(sep) for a one-character separator
split(s, sep) ==
    IF ~contains(s, sep)
    THEN << s >>
    ELSE << SubSeq(s, 1, find(s, sep) - 1) >>
         \o split(SubSeq(s, find(s, sep) + 1, Len(s)), sep)

RECURSIVE parse_lines(_, _)
\* the "for line in ..." loop: fields[key] = value for each line holding a tab
parse_lines(lines, fields) ==
    IF lines = <<>>
    THEN fields
    ELSE LET line == Head(lines)
         IN  IF contains(line, "\t")
             THEN LET i     == find(line, "\t")
                      key   == SubSeq(line, 1, i - 1)
                      value == SubSeq(line, i + 1, Len(line))
                  IN  parse_lines(Tail(lines), (key :> value) @@ fields)
             ELSE parse_lines(Tail(lines), fields)

\* the output parser shared by both runners
parse_fields(stdout) == parse_lines(split(strip(stdout), "\n"), <<>>)

\* the prefix of f"Command failed: {stderr}"
CommandFailed == <<"C","o","m","m","a","n","d"," ","f","a","i","l","e","d",":"," ">>

\* proc is what run_command returned: [returncode, stdout, stderr].
\* The measured duration plays no part in any comparison and is left out.
\* a slip that loses the failure of the command
run_go_gameid_drops_error(proc) ==
    IF proc.returncode # 0
    THEN [error |-> None, fields |-> <<>>]
    ELSE [error |-> None, fields |-> parse_fields(proc.stdout)]

run_go_gameid(proc) ==
    IF proc.returncode # 0
    THEN [error |-> Str(CommandFailed \o proc.stderr), fields |-> <<>>]
    ELSE [error |-> None, fields |-> parse_fields(proc.stdout)]

run_python_gameid(proc) ==
    IF proc.returncode # 0
    THEN [error |-> Str(CommandFailed \o proc.stderr), fields |-> <<>>]
    ELSE [error |-> None, fields |-> parse_fields(proc.stdout)]

----------------------------------------------------------------------------
(* run_comparison_tests.compare_results                                    *)

\* dict.get(key, default)
get(d, key, default) == IF key \in DOMAIN d THEN d[key] ELSE default

Range(s) == { s[i] : i \in DOMAIN s }

\* the orders in which iterating a Python set S may yield its elements
Orders(S) == { s \in [1..Cardinality(S) -> S] : Range(s) = S }

\* all_fields = set(go_fields.keys()) | set(python_fields.keys())
all_fields(go, py) ==
    DOMAIN go.fields \cup DOMAIN py.fields

RECURSIVE compare_fields_swapped_lists(_, _, _, _)
\* a slip that files a field missing from the Python side under missing_in_go
compare_fields_swapped_lists(go_fields, python_fields, order, c) ==
    IF order = <<>>
    THEN c
    ELSE LET field        == Head(order)
             go_value     == get(go_fields, field, <<>>)
             python_value == get(python_fields, field, <<>>)
             next ==
                 IF field \notin DOMAIN go_fields
                 THEN [c EXCEPT !.missing_in_go = Append(@, field), !.passed = FALSE]
                 ELSE IF field \notin DOMAIN python_fields
                 THEN [c EXCEPT !.missing_in_go = Append(@, field), !.passed = FALSE]
                 ELSE IF normalize_value(go_value) # normalize_value(python_value)
                 THEN [c EXCEPT !.differences =
                                    Append(@, [field |-> field, go_value |-> go_value,
                                               python_value |-> python_value]),
                                !.passed = FALSE]
                 ELSE c
         IN  compare_fields_swapped_lists(go_fields, python_fields, Tail(order), next)

RECURSIVE compare_fields_raw(_, _, _, _)
\* a slip that compares the raw values, without normalize_value
compare_fields_raw(go_fields, python_fields, order, c) ==
    IF order = <<>>
    THEN c
    ELSE LET field        == Head(order)
             go_value     == get(go_fields, field, <<>>)
             python_value == get(python_fields, field, <<>>)
             next ==
                 IF field \notin DOMAIN go_fields
                 THEN [c EXCEPT !.missing_in_go = Append(@, field), !.passed = FALSE]
                 ELSE IF field \notin DOMAIN python_fields
                 THEN [c EXCEPT !.missing_in_python = Append(@, field), !.passed = FALSE]
                 ELSE IF go_value # python_value
                 THEN [c EXCEPT !.differences =
                                    Append(@, [field |-> field, go_value |-> go_value,
                                               python_value |-> python_value]),
                                !.passed = FALSE]
                 ELSE c
         IN  compare_fields_raw(go_fields, python_fields, Tail(order), next)

RECURSIVE compare_fields(_, _, _, _)
\* the "for field in all_fields" loop; order is the order the set yields
compare_fields(go_fields, python_fields, order, c) ==
    IF order = <<>>
    THEN c
    ELSE LET field        == Head(order)
             go_value     == get(go_fields, field, <<>>)
             python_value == get(python_fields, field, <<>>)
             next ==
                 IF field \notin DOMAIN go_fields
                 THEN [c EXCEPT !.missing_in_go = Append(@, field), !.passed = FALSE]
                 ELSE IF field \notin DOMAIN python_fields
                 THEN [c EXCEPT !.missing_in_python = Append(@, field), !.passed = FALSE]
                 ELSE IF normalize_value(go_value) # normalize_value(python_value)
                 THEN [c EXCEPT !.differences =
                                    Append(@, [field |-> field, go_value |-> go_value,
                                               python_value |-> python_value]),
                                !.passed = FALSE]
                 ELSE c
         IN  compare_fields(go_fields, python_fields, Tail(order), next)

\* a slip that lets a pair of failed runs through to the field comparison
compare_results_ignores_errors(go, py, order) ==
    compare_fields(go.fields, py.fields, order,
        [passed |-> TRUE, differences |-> <<>>, missing_in_go |-> <<>>,
         missing_in_python |-> <<>>,
         error_comparison |-> [go_error |-> go.error,
                               python_error |-> py.error]])

compare_results(go, py, order) ==
    LET c0 == [passed |-> TRUE, differences |-> <<>>, missing_in_go |-> <<>>,
               missing_in_python |-> <<>>,
               error_comparison |-> [go_error |-> go.error,
                                     python_error |-> py.error]]
    IN  IF Truthy(go.error) /\ Truthy(py.error)
        THEN [c0 EXCEPT !.passed = FALSE]
        ELSE IF Truthy(go.error) \/ Truthy(py.error)
        THEN [c0 EXCEPT !.passed = FALSE]
        ELSE compare_fields(go.fields, py.fields, order, c0)

----------------------------------------------------------------------------
(* Idle values of the parts a specification does not exercise              *)

NormIdle == nv = [pc |-> "idle", x |-> <<>>, once |-> <<>>, twice |-> <<>>]

HarnessIdle ==
    /\ pc = "idle"
    /\ test_files = <<>>
    /\ current_test = 0
    /\ go_result = None
    /\ python_result = None
    /\ comparison = None
    /\ results = <<>>
    /\ report = None
    /\ artifacts = {}
    /\ exit_code = -1
    /\ running = {}
    /\ log = <<>>
    /\ captured = None

SamplesIdle ==
    /\ spc = [sample |-> 0, stage |-> "idle", k |-> 0]
    /\ data = [size |-> 0, b |-> <<>>]
    /\ checksum = 0
    /\ files = <<>>
    /\ dirs = {}
    /\ iso_args = None

----------------------------------------------------------------------------
(* SpecNormalize: normalize_value applied once and then to its own result  *)

Alphabet == {" ", "0", "x", "X", "A", "n", "N", "o", "e"}

\* all strings over Alphabet of length at most n
StringsUpTo(n) == UNION { [1..k -> Alphabet] : k \in 0..n }

\* longer inputs of the kinds the harness meets: padded and mixed-case null
\* synonyms, padded hex in both prefix cases, plain text
LongInputs ==
    { <<" ","N","o","n","e"," ">>, <<"N","U","L","L">>, <<"n","u","l","l"," ">>,
      <<"\t","N","o","N","e","\n">>, <<" ","0","X","a","B"," ">>,
      <<" ","0","x","A","b","\r">>, <<"U","S","A">>, <<"u","s","a"," ">> }

NormInputs == StringsUpTo(MaxLen) \cup LongInputs

InitNormalize ==
    /\ nv \in { [pc |-> "call", x |-> x, once |-> <<>>, twice |-> <<>>] : x \in NormInputs }
    /\ HarnessIdle
    /\ SamplesIdle

NormalizeOnce ==
    /\ nv.pc = "call"
    /\ nv' = [nv EXCEPT !.pc = "once", !.once = normalize_value(nv.x)]
    /\ UNCHANGED <<harnessVars, sampleVars>>

NormalizeTwice ==
    /\ nv.pc = "once"
    /\ nv' = [nv EXCEPT !.pc = "twice", !.twice = normalize_value(nv.once)]
    /\ UNCHANGED <<harnessVars, sampleVars>>

NextNormalize == NormalizeOnce \/ NormalizeTwice

SpecNormalize == InitNormalize /\ [][NextNormalize]_vars

\* C7: normalize_value is idempotent: normalizing a normalized value returns it
\* unchanged, for every input string.
C7_NormalizeIdempotent == nv.pc = "twice" => nv.twice = nv.once

\* a padded hex value was normalized (trimmed and lower-cased) and normalized again
C7_Witness ==
    /\ nv.pc = "twice"
    /\ nv.x = <<" ","0","x","A">>
    /\ nv.once = <<"0","x","a">>

\* the positions of x that hold a character other than whitespace
Inked(x) == { i \in 1..Len(x) : x[i] \notin Whitespace }

\* x without its leading and trailing whitespace
trimmed(x) ==
    IF Inked(x) = {}
    THEN <<>>
    ELSE SubSeq(x, CHOOSE i \in Inked(x) : \A j \in Inked(x) : i <= j,
                   CHOOSE i \in Inked(x) : \A j \in Inked(x) : i >= j)

\* t spells the lower-case word w in some mix of upper and lower case
spells(t, w) ==
    /\ Len(t) = Len(w)
    /\ \A i \in 1..Len(w) : lower_char(t[i]) = w[i]

\* the reference normalization: trim; "", "none" and "null" in any case give
\* "None"; a value that begins with "0x" is lower-cased; any other value is
\* the trimmed value as it is
normalize_reference(x) ==
    LET t == trimmed(x)
    IN  IF t = <<>> \/ spells(t, <<"n","o","n","e">>) \/ spells(t, <<"n","u","l","l">>)
        THEN <<"N","o","n","e">>
        ELSE IF Len(t) >= 2 /\ t[1] = "0" /\ t[2] = "x"
        THEN [i \in 1..Len(t) |-> lower_char(t[i])]
        ELSE t

\* the field name used when one pair of values is compared
RegionKey == <<"r","e","g","i","o","n">>

\* compare_results of two error-free outcomes with the one field region
compare_one_field(go_value, python_value) ==
    compare_results([error |-> None, fields |-> (RegionKey :> go_value)],
                    [error |-> None, fields |-> (RegionKey :> python_value)],
                    << RegionKey >>)

\* C15: normalize_value agrees with the reference normalization on every
\* string (no case folding of an ordinary value); consequently a value and
\* its lower-cased spelling, such as USA and usa, are recorded as a value
\* difference and fail the case whenever their reference forms differ.
C15_NormalizeAgrees ==
    nv.pc \in {"once", "twice"} =>
        /\ nv.once = normalize_reference(nv.x)
        /\ normalize_reference(nv.x) # normalize_reference(lower(nv.x)) =>
               /\ ~compare_one_field(nv.x, lower(nv.x)).passed
               /\ compare_one_field(nv.x, lower(nv.x)).differences =
                      << [field |-> RegionKey, go_value |-> nv.x,
                          python_value |-> lower(nv.x)] >>

\* normalize_value("USA") has returned "USA", which differs from "usa"
C15_Witness ==
    /\ nv.pc = "once"
    /\ nv.x = <<"U","S","A">>
    /\ nv.once = <<"U","S","A">>
    /\ ~compare_one_field(nv.x, lower(nv.x)).passed

----------------------------------------------------------------------------
(* SpecParse: the three output parsers applied to one captured output      *)

\* compare_outputs.parse_output: the same loop as the runners of
\* run_comparison_tests
parse_output(output) == parse_lines(split(strip(output), "\n"), <<>>)

\* the dict returned by a runner of compare_outputs.py
Dict(d) == [tag |-> "dict", d |-> d]

\* compare_outputs.run_go_gameid / run_python_gameid once subprocess.run has
\* ended: check=True raises CalledProcessError on a non-zero status, which is
\* caught and gives None; otherwise the parsed standard output
outputs_run_gameid(proc) ==
    IF proc.returncode # 0 THEN None ELSE Dict(parse_output(proc.stdout))

\* the characters of a captured standard output
OutAlphabet == {"k", "v", "\t", "\n", " "}

Outputs == UNION { [1..n -> OutAlphabet] : n \in 0..MaxOut }

InitParse ==
    /\ pc = "parse_call"
    /\ captured \in
           { [returncode |-> 0, stdout |-> out, stderr |-> <<>>] : out \in Outputs }
           \cup { [returncode |-> 1, stdout |-> <<>>,
                    stderr |-> <<"u","n","s","u","p","p","o","r","t","e","d">>] }
    /\ test_files = <<>>
    /\ current_test = 0
    /\ go_result = None
    /\ python_result = None
    /\ comparison = None
    /\ results = <<>>
    /\ report = None
    /\ artifacts = {}
    /\ exit_code = -1
    /\ running = {}
    /\ log = <<>>
    /\ NormIdle
    /\ SamplesIdle

\* run_comparison_tests.run_go_gameid from the return of run_command on
ParseGo ==
    /\ pc = "parse_call"
    /\ go_result' = run_go_gameid(captured)
    /\ pc' = "parsed_go"
    /\ UNCHANGED <<nv, test_files, current_test, python_result, comparison, results,
                   report, artifacts, exit_code, running, log, captured, sampleVars>>

\* run_comparison_tests.run_python_gameid from the return of run_command on
ParsePython ==
    /\ pc = "parse_call"
    /\ python_result' = run_python_gameid(captured)
    /\ pc' = "parsed_python"
    /\ UNCHANGED <<nv, test_files, current_test, go_result, comparison, results,
                   report, artifacts, exit_code, running, log, captured, sampleVars>>

\* compare_outputs.run_go_gameid from the end of subprocess.run on; its
\* result is kept in go_result
ParseOutput ==
    /\ pc = "parse_call"
    /\ go_result' = outputs_run_gameid(captured)
    /\ pc' = "parsed_output"
    /\ UNCHANGED <<nv, test_files, current_test, python_result, comparison, results,
                   report, artifacts, exit_code, running, log, captured, sampleVars>>

NextParse == ParseGo \/ ParsePython \/ ParseOutput

SpecParse == InitParse /\ [][NextParse]_vars

\* the lines of an output that hold a tab
TabLines(out) == SelectSeq(split(out, "\n"), LAMBDA line : contains(line, "\t"))

\* the text of a line before its first tab
key_of(line) == SubSeq(line, 1, find(line, "\t") - 1)

\* the text of a line after its first tab
value_of(line) == SubSeq(line, find(line, "\t") + 1, Len(line))

\* fields has one entry per line of out that holds a tab, key and value as on
\* the line (a repeated key keeps the value of its last line), and no other
\* entry
EntryPerTabLine(fields, out) ==
    LET lines == TabLines(out)
    IN  /\ DOMAIN fields = { key_of(lines[i]) : i \in DOMAIN lines }
        /\ \A i \in DOMAIN lines :
               (\A j \in DOMAIN lines : j > i => key_of(lines[j]) # key_of(lines[i]))
                   => fields[key_of(lines[i])] = value_of(lines[i])

\* C21: for successful output every line that holds a tab yields exactly one
\* field-map entry, key the text before the first tab and value everything
\* after it (an empty value and a value on the first or last line included),
\* and a line without a tab yields no entry; this for each of the parsers.
C21_EntryPerTabLine ==
    captured.returncode = 0 =>
        /\ pc = "parsed_go" => EntryPerTabLine(go_result.fields, captured.stdout)
        /\ pc = "parsed_python" => EntryPerTabLine(python_result.fields, captured.stdout)
        /\ pc = "parsed_output" => EntryPerTabLine(go_result.d, captured.stdout)

----------------------------------------------------------------------------
(* SpecCompare: compare_results applied to a pair of run outcomes          *)

KeyNames == << <<"t","i","t","l","e">>, <<"I","D">>, <<"r","e","g","i","o","n">> >>

Keys == { KeyNames[i] : i \in 1..Min(MaxKeys, Len(KeyNames)) }

CmpValues ==
    { <<"U","S","A">>, <<" ","U","S","A">>,
      <<"0","x","A","B">>, <<"0","x","a","b">>, <<>> }

FieldMaps == UNION { [K -> CmpValues] : K \in SUBSET Keys }

Stderrs == { <<"u","n","s","u","p","p","o","r","t","e","d">> }

\* what run_go_gameid / run_python_gameid can return: a failed run carries an
\* error and no fields, a successful one the parsed fields and no error
RunOutcomes ==
    { [error |-> Str(CommandFailed \o e), fields |-> <<>>] : e \in Stderrs }
    \cup { [error |-> None, fields |-> f] : f \in FieldMaps }

InitCompare ==
    /\ pc = "compare_call"
    /\ go_result \in RunOutcomes
    /\ python_result \in RunOutcomes
    /\ test_files = <<>>
    /\ current_test = 0
    /\ comparison = None
    /\ results = <<>>
    /\ report = None
    /\ artifacts = {}
    /\ exit_code = -1
    /\ running = {}
    /\ log = <<>>
    /\ captured = None
    /\ NormIdle
    /\ SamplesIdle

CompareCall ==
    /\ pc = "compare_call"
    /\ \E order \in Orders(all_fields(go_result, python_result)) :
           comparison' = compare_results(go_result, python_result, order)
    /\ pc' = "compared"
    /\ UNCHANGED <<nv, test_files, current_test, go_result, python_result, results,
                   report, artifacts, exit_code, running, log, captured, sampleVars>>

\* the default of dict.get in compare_outputs.compare_outputs
Missing == <<"<","m","i","s","s","i","n","g",">">>

\* what a runner of compare_outputs.py hands to compare_outputs for a run
\* outcome: None for a failed run, the parsed dict otherwise
as_output(outcome) == IF Truthy(outcome.error) THEN None ELSE Dict(outcome.fields)

\* compare_outputs.compare_outputs(python_output, go_output): False when
\* either is None; otherwise the keys whose raw values differ, a key absent
\* on one side reading as "<missing>" there, and True exactly when there is
\* none (the keys are walked in sorted order, which only orders the print)
compare_outputs(python_output, go_output) ==
    IF python_output = None \/ go_output = None
    THEN FALSE
    ELSE LET all_keys    == DOMAIN python_output.d \cup DOMAIN go_output.d
             differences == { key \in all_keys :
                                  get(python_output.d, key, Missing)
                                      # get(go_output.d, key, Missing) }
         IN  differences = {}

\* compare_outputs.test_file from the return of its two runners on; the
\* verdict is kept in comparison
CompareOutputsCall ==
    /\ pc = "compare_call"
    /\ comparison' = [tag |-> "bool",
                      value |-> compare_outputs(as_output(python_result),
                                                as_output(go_result))]
    /\ pc' = "outputs_compared"
    /\ UNCHANGED <<nv, test_files, current_test, go_result, python_result, results,
                   report, artifacts, exit_code, running, log, captured, sampleVars>>

NextCompare == CompareCall \/ CompareOutputsCall

SpecCompare == InitCompare /\ [][NextCompare]_vars

\* both field maps have the same keys and, key by key, equal normalized values
SameAfterNormalize(f, g) ==
    /\ DOMAIN f = DOMAIN g
    /\ \A k \in DOMAIN f : normalize_value(f[k]) = normalize_value(g[k])

NoLists(c) ==
    /\ c.differences = <<>>
    /\ c.missing_in_go = <<>>
    /\ c.missing_in_python = <<>>

\* C1 as stated: for every pair of run outcomes whose field maps agree after
\* normalization, compare_results reports passed with three empty lists.
C1_Original ==
    (pc = "compared" /\ SameAfterNormalize(go_result.fields, python_result.fields))
        => (comparison.passed /\ NoLists(comparison))

\* C1 amended: for every pair of run outcomes neither of which carries an error
\* and whose field maps agree after normalization, compare_results reports
\* passed with three empty lists.
C1_SameFieldsPass ==
    (/\ pc = "compared"
     /\ ~Truthy(go_result.error)
     /\ ~Truthy(python_result.error)
     /\ SameAfterNormalize(go_result.fields, python_result.fields))
        => (comparison.passed /\ NoLists(comparison))

\* two error-free outcomes with different raw values that normalize alike passed
C1_Witness ==
    /\ pc = "compared"
    /\ ~Truthy(go_result.error)
    /\ ~Truthy(python_result.error)
    /\ Keys \subseteq DOMAIN go_result.fields
    /\ SameAfterNormalize(go_result.fields, python_result.fields)
    /\ \A k \in Keys : go_result.fields[k] # python_result.fields[k]
    /\ comparison.passed

\* C2: passed is true exactly when neither outcome carries an error and the
\* differences, missing_in_go and missing_in_python lists are all empty.
C2_PassedIff ==
    pc = "compared" =>
        (comparison.passed <=>
            (/\ ~Truthy(go_result.error)
             /\ ~Truthy(python_result.error)
             /\ NoLists(comparison)))

\* a failed comparison whose three lists are empty: only the error decides it
C2_Witness ==
    /\ pc = "compared"
    /\ Truthy(go_result.error)
    /\ Truthy(python_result.error)
    /\ NoLists(comparison)
    /\ ~comparison.passed

DiffFields(c) == { c.differences[i].field : i \in DOMAIN c.differences }

\* C8: for error-free outcomes a and b, missing_in_go of compare_results(a, b)
\* is, as a set, missing_in_python of compare_results(b, a), and conversely,
\* and the fields with a value difference are the same in both directions.
C8_DiffSymmetry ==
    (pc = "compared" /\ ~Truthy(go_result.error) /\ ~Truthy(python_result.error)) =>
        \A order \in Orders(all_fields(python_result, go_result)) :
            LET rev == compare_results(python_result, go_result, order)
            IN  /\ Range(comparison.missing_in_go) = Range(rev.missing_in_python)
                /\ Range(comparison.missing_in_python) = Range(rev.missing_in_go)
                /\ DiffFields(comparison) = DiffFields(rev)

\* a comparison with a field missing on one side and a value difference
C8_Witness ==
    /\ pc = "compared"
    /\ ~Truthy(go_result.error)
    /\ ~Truthy(python_result.error)
    /\ comparison.missing_in_go \o comparison.missing_in_python # <<>>
    /\ comparison.differences # <<>>

\* C24: the two comparison routines agree on the verdict: for every pair of
\* error-free field maps compare_outputs.compare_outputs returns True exactly
\* when run_comparison_tests.compare_results returns passed = true, in
\* whatever order the latter walks the fields.
C24_SameVerdict ==
    (pc = "outputs_compared" /\ ~Truthy(go_result.error)
        /\ ~Truthy(python_result.error)) =>
        \A order \in Orders(all_fields(go_result, python_result)) :
            comparison.value = compare_results(go_result, python_result, order).passed

\* C19: the ordering of a case's differences, missing_in_go and
\* missing_in_python lists (and with it the key order of field_differences and
\* missing_fields and the recommendation chosen on a tie) is the same in every
\* run over the same outcomes: whatever order the field set is walked in,
\* compare_results returns the comparison this run got.
C19_DeterministicOrder ==
    pc = "compared" =>
        \A order \in Orders(all_fields(go_result, python_result)) :
            compare_results(go_result, python_result, order) = comparison

----------------------------------------------------------------------------
(* run_comparison_tests.generate_report                                    *)

\* a Python dict of lists, with its insertion order
EmptyDict == [keys |-> <<>>, val |-> <<>>]

\* if key not in d: d[key] = []  followed by  d[key].append(item)
dict_append(d, key, item) ==
    IF key \in Range(d.keys)
    THEN [d EXCEPT !.val[key] = Append(@, item)]
    ELSE [keys |-> Append(d.keys, key), val |-> (key :> << item >>) @@ d.val]

RECURSIVE track_differences(_, _, _)
\* for diff in comp["differences"]
track_differences(field_differences, result, diffs) ==
    IF diffs = <<>>
    THEN field_differences
    ELSE track_differences(
             dict_append(field_differences, Head(diffs).field,
                 [console |-> result.console, file |-> result.filepath,
                  go_value |-> Head(diffs).go_value,
                  python_value |-> Head(diffs).python_value]),
             result, Tail(diffs))

RECURSIVE track_missing(_, _, _)
\* for field in comp["missing_in_go"] / comp["missing_in_python"]
track_missing(missing, result, fields) ==
    IF fields = <<>>
    THEN missing
    ELSE track_missing(
             dict_append(missing, Head(fields),
                 [console |-> result.console, file |-> result.filepath]),
             result, Tail(fields))

\* a slip that tests the Go error before testing for both
error_side_go_first(result) ==
    IF Truthy(result.go_result.error)
    THEN "go"
    ELSE IF Truthy(result.go_result.error) /\ Truthy(result.python_result.error)
    THEN "both"
    ELSE IF Truthy(result.python_result.error)
    THEN "python"
    ELSE ""

\* a slip that files a one-sided error under "both"
error_side_either_is_both(result) ==
    IF Truthy(result.go_result.error) \/ Truthy(result.python_result.error)
    THEN "both"
    ELSE IF Truthy(result.go_result.error)
    THEN "go"
    ELSE IF Truthy(result.python_result.error)
    THEN "python"
    ELSE ""

\* the error bucket of one failed result, "" when neither run errored
error_side(result) ==
    IF Truthy(result.go_result.error) /\ Truthy(result.python_result.error)
    THEN "both"
    ELSE IF Truthy(result.go_result.error)
    THEN "go"
    ELSE IF Truthy(result.python_result.error)
    THEN "python"
    ELSE ""

EmptyBuckets ==
    [field_differences |-> EmptyDict,
     missing_fields    |-> [go |-> EmptyDict, python |-> EmptyDict],
     error_cases       |-> [go |-> <<>>, python |-> <<>>, both |-> <<>>]]

RECURSIVE categorize(_, _)
\* the "for result in results" loop that categorizes failures
categorize(rs, b) ==
    IF rs = <<>>
    THEN b
    ELSE LET result == Head(rs)
             comp   == result.comparison
             side   == error_side(result)
             next ==
                 IF comp.passed
                 THEN b
                 ELSE [field_differences |->
                           track_differences(b.field_differences, result, comp.differences),
                       missing_fields |->
                           [go     |-> track_missing(b.missing_fields.go, result,
                                                     comp.missing_in_go),
                            python |-> track_missing(b.missing_fields.python, result,
                                                     comp.missing_in_python)],
                       error_cases |->
                           IF side = ""
                           THEN b.error_cases
                           ELSE [b.error_cases EXCEPT ![side] = Append(@, result)]]
         IN  categorize(Tail(rs), next)

\* Python's a / b on numbers: raises ZeroDivisionError when b = 0
truediv(a, b) ==
    IF b = 0
    THEN [ok |-> FALSE, num |-> 0, den |-> 1]
    ELSE [ok |-> TRUE, num |-> a, den |-> b]

\* the number 0, as a quotient
Zero == [num |-> 0, den |-> 1]

JsonPath == "comparison_results/detailed_report.json"

SummaryPath == "comparison_results/summary.md"

\* generate_report(results): what it raised, what it returned, what it dumped
\* to detailed_report.json and which files it wrote.  The detailed report is dumped before the summary lines are
\* formatted; the "Success Rate" line of the summary divides by total_tests
\* without the guard the JSON summary has.
generate_report(rs) ==
    LET total_tests  == Len(rs)
        passed_tests == Cardinality({ i \in DOMAIN rs : rs[i].comparison.passed })
        failed_tests == total_tests - passed_tests
        b            == categorize(rs, EmptyBuckets)
        json_rate    == IF total_tests > 0
                        THEN truediv(passed_tests * 100, total_tests)
                        ELSE truediv(0, 1)
        detailed_report ==
            [summary |-> [total_tests  |-> total_tests,
                          passed_tests |-> passed_tests,
                          failed_tests |-> failed_tests,
                          success_rate |-> [num |-> json_rate.num, den |-> json_rate.den]],
             field_differences |-> b.field_differences,
             missing_fields    |-> b.missing_fields,
             error_cases       |-> b.error_cases,
             all_results       |-> rs]
        summary_rate == truediv(passed_tests, total_tests)
    IN  IF ~summary_rate.ok
        THEN [tag |-> "report", raised |-> TRUE, error |-> "ZeroDivisionError",
              dumped |-> detailed_report, written |-> { JsonPath }]
        ELSE [tag |-> "report", raised |-> FALSE, value |-> detailed_report,
              dumped |-> detailed_report, written |-> { JsonPath, SummaryPath }]

----------------------------------------------------------------------------
(* What the two identification programs may do on one input                *)

\* run_command's (returncode, stdout, stderr)
ProcResults ==
    { [returncode |-> 1, stdout |-> <<>>,
       stderr |-> <<"u","n","s","u","p","p","o","r","t","e","d">>],
      [returncode |-> 0, stderr |-> <<>>,
       stdout |-> <<"t","i","t","l","e","\t","T","E","S","T","\n",
                    "I","D","\t","0","x","A","B","\n">>],
      [returncode |-> 0, stderr |-> <<>>,
       stdout |-> <<"t","i","t","l","e","\t","T","E","S","T","\n",
                    "I","D","\t","0","x","a","b","\n">>],
      [returncode |-> 0, stderr |-> <<>>,
       stdout |-> <<"I","D","\t","0","x","C","D","\n",
                    "t","i","t","l","e","\t","T","E","S","T","\n">>],
      [returncode |-> 0, stderr |-> <<>>,
       stdout |-> <<"t","i","t","l","e","\t","T","E","S","T","\n">>] }

\* the sample files, in the order find_test_files walks console_dirs
SampleCases ==
    << [console |-> "GB",      filepath |-> "testdata/gb/test_game.gb"],
       [console |-> "GBA",     filepath |-> "testdata/gba/test_game.gba"],
       [console |-> "GC",      filepath |-> "testdata/gc/test_game.iso"],
       [console |-> "Genesis", filepath |-> "testdata/genesis/test_game.gen"],
       [console |-> "N64",     filepath |-> "testdata/n64/test_game.n64"],
       [console |-> "PSP",     filepath |-> "testdata/psp/test_game.iso"],
       [console |-> "PSX",     filepath |-> "testdata/psx/test_game.bin"],
       [console |-> "Saturn",  filepath |-> "testdata/saturn/test_game.iso"],
       [console |-> "SegaCD",  filepath |-> "testdata/segacd/test_game.iso"],
       [console |-> "SNES",    filepath |-> "testdata/snes/test_game.sfc"] >>

\* the test_result dict of run_tests (the timestamp is left out)
test_result(case, go, py, comp) ==
    [console |-> case.console, filepath |-> case.filepath,
     go_result |-> go, python_result |-> py, comparison |-> comp]

----------------------------------------------------------------------------
(* SpecReport: generate_report applied to a list of results                *)

\* the test results run_tests can build for one case
CaseResults(case) ==
    UNION { { test_result(case, run_go_gameid(t[1]), run_python_gameid(t[2]),
                  compare_results(run_go_gameid(t[1]), run_python_gameid(t[2]), order)) :
                order \in Orders(all_fields(run_go_gameid(t[1]), run_python_gameid(t[2]))) } :
            t \in ProcResults \X ProcResults }

RECURSIVE ResultLists(_)
\* result lists of length n: the i-th result is for the i-th sample
ResultLists(n) ==
    IF n = 0
    THEN { <<>> }
    ELSE { Append(rs, r) : rs \in ResultLists(n - 1), r \in CaseResults(SampleCases[n]) }

InitReport ==
    /\ pc = "report_call"
    /\ results \in UNION { ResultLists(n) : n \in 0..Min(MaxResults, Len(SampleCases)) }
    /\ test_files = <<>>
    /\ current_test = 0
    /\ go_result = None
    /\ python_result = None
    /\ comparison = None
    /\ report = None
    /\ artifacts = {}
    /\ exit_code = -1
    /\ running = {}
    /\ log = <<>>
    /\ captured = None
    /\ NormIdle
    /\ SamplesIdle

GenerateReportCall ==
    /\ pc = "report_call"
    /\ report' = generate_report(results)
    /\ artifacts' = generate_report(results).written
    /\ pc' = "reported"
    /\ UNCHANGED <<nv, test_files, current_test, go_result, python_result, comparison,
                   results, exit_code, running, log, captured, sampleVars>>

NextReport == GenerateReportCall

SpecReport == InitReport /\ [][NextReport]_vars

\* C9: generate_report on an empty sequence of results completes without a
\* division fault and yields total_tests = 0, success_rate = 0 and empty
\* field_differences, missing_fields and error_cases, with both the structured
\* and the human-readable artifact produced.
C9_EmptyReport ==
    (pc = "reported" /\ results = <<>>) =>
        /\ ~report.raised
        /\ report.value.summary.total_tests = 0
        /\ report.value.summary.success_rate = Zero
        /\ report.value.field_differences = EmptyDict
        /\ report.value.missing_fields = [go |-> EmptyDict, python |-> EmptyDict]
        /\ report.value.error_cases = [go |-> <<>>, python |-> <<>>, both |-> <<>>]
        /\ artifacts = { JsonPath, SummaryPath }

----------------------------------------------------------------------------
(* Spec: run_comparison_tests.main                                          *)

\* a slip that reports failure only when every case failed
main_exit_code_all_failed(rep) ==
    IF rep.summary.failed_tests = rep.summary.total_tests THEN 1 ELSE 0

\* "return appropriate exit code" at the end of main
main_exit_code(rep) ==
    IF rep.summary.failed_tests > 0 THEN 1 ELSE 0

\* the sample files that exist under testdata/, as find_test_files lists them
Corpora ==
    { SelectSeq(SampleCases, LAMBDA c : \E i \in S : SampleCases[i] = c) :
        S \in SUBSET (1..Min(MaxFiles, Len(SampleCases))) }

Init ==
    /\ pc = "setup_environment"
    /\ test_files = <<>>
    /\ current_test = 0
    /\ go_result = None
    /\ python_result = None
    /\ comparison = None
    /\ results = <<>>
    /\ report = None
    /\ artifacts = {}
    /\ exit_code = -1
    /\ running = {}
    /\ log = <<>>
    /\ captured = None
    /\ NormIdle
    /\ SamplesIdle

\* setup_environment(): the build, the reference script or the sample
\* generation may fail; main then exits 1
SetupEnvironment ==
    /\ pc = "setup_environment"
    /\ \E ok \in BOOLEAN :
           IF ok
           THEN pc' = "find_test_files" /\ exit_code' = exit_code
           ELSE pc' = "exit_setup_failed" /\ exit_code' = 1
    /\ UNCHANGED <<nv, test_files, current_test, go_result, python_result, comparison,
                   results, report, artifacts, running, log, captured, sampleVars>>

\* run_tests up to its loop: with no test files it returns [] and main exits 1
\* ("No tests were run") without generating a report
FindTestFiles ==
    /\ pc = "find_test_files"
    /\ \E corpus \in Corpora :
           /\ test_files' = corpus
           /\ IF corpus = <<>>
              THEN pc' = "exit_no_tests" /\ exit_code' = 1
              ELSE pc' = "run_go_gameid" /\ exit_code' = exit_code
    /\ UNCHANGED <<nv, current_test, go_result, python_result, comparison,
                   results, report, artifacts, running, log, captured, sampleVars>>

\* str(e) of the exception subprocess.run raised: run_command turns it into
\* the triple (1, "", str(e))
LaunchError ==
    [returncode |-> 1, stdout |-> <<>>,
     stderr |-> <<"[","E","r","r","n","o"," ","1","2","]">>]

\* one entry of log: run_command was called / has returned for a case
call_event(case, side) == [event |-> "call", case |-> case, side |-> side]

return_event(case, side, proc) ==
    [event |-> "return", case |-> case, side |-> side, proc |-> proc]

\* a slip that starts the child and does not wait for it
subprocess_run_no_wait(procs, side) == procs

\* subprocess.run returns once the child has exited: the children still alive
\* after it returned for `side`
subprocess_run(procs, side) == { p \in procs : p.side # side }

\* the loop body up to run_command's subprocess.run for the Go program: the
\* child starts (and may be one that never exits), or subprocess.run raises
\* and run_go_gameid returns the error outcome at once
StartGo ==
    /\ pc = "run_go_gameid"
    /\ current_test' = current_test + 1
    /\ \E launched \in BOOLEAN :
           IF launched
           THEN /\ \E hangs \in BOOLEAN :
                       running' = running \cup { [side |-> "go", hangs |-> hangs] }
                /\ log' = Append(log, call_event(current_test + 1, "go"))
                /\ go_result' = go_result
                /\ pc' = "go_running"
           ELSE /\ running' = running
                /\ log' = log \o << call_event(current_test + 1, "go"),
                                    return_event(current_test + 1, "go", LaunchError) >>
                /\ go_result' = run_go_gameid(LaunchError)
                /\ pc' = "run_python_gameid"
    /\ UNCHANGED <<nv, test_files, python_result, comparison, results, report,
                   artifacts, exit_code, captured, sampleVars>>

\* the Go child exits; subprocess.run and then run_go_gameid return.  No
\* timeout is passed to subprocess.run, so nothing happens while the child
\* lives
RunGo ==
    /\ pc = "go_running"
    /\ \E p \in running : p.side = "go" /\ ~p.hangs
    /\ \E proc \in ProcResults :
           /\ go_result' = run_go_gameid(proc)
           /\ log' = Append(log, return_event(current_test, "go", proc))
    /\ running' = subprocess_run(running, "go")
    /\ pc' = "run_python_gameid"
    /\ UNCHANGED <<nv, test_files, current_test, python_result, comparison, results,
                   report, artifacts, exit_code, captured, sampleVars>>

\* the same for the reference program, called after run_go_gameid returned
StartPython ==
    /\ pc = "run_python_gameid"
    /\ \E launched \in BOOLEAN :
           IF launched
           THEN /\ \E hangs \in BOOLEAN :
                       running' = running \cup { [side |-> "python", hangs |-> hangs] }
                /\ log' = Append(log, call_event(current_test, "python"))
                /\ python_result' = python_result
                /\ pc' = "python_running"
           ELSE /\ running' = running
                /\ log' = log \o << call_event(current_test, "python"),
                                    return_event(current_test, "python", LaunchError) >>
                /\ python_result' = run_python_gameid(LaunchError)
                /\ pc' = "compare_results"
    /\ UNCHANGED <<nv, test_files, current_test, go_result, comparison, results, report,
                   artifacts, exit_code, captured, sampleVars>>

RunPython ==
    /\ pc = "python_running"
    /\ \E p \in running : p.side = "python" /\ ~p.hangs
    /\ \E proc \in ProcResults :
           /\ python_result' = run_python_gameid(proc)
           /\ log' = Append(log, return_event(current_test, "python", proc))
    /\ running' = subprocess_run(running, "python")
    /\ pc' = "compare_results"
    /\ UNCHANGED <<nv, test_files, current_test, go_result, comparison, results, report,
                   artifacts, exit_code, captured, sampleVars>>

\* compare_results and results.append(test_result); then the next file, or the
\* return of run_tests
Compare ==
    /\ pc = "compare_results"
    /\ \E order \in Orders(all_fields(go_result, python_result)) :
           LET comp == compare_results(go_result, python_result, order)
           IN  /\ comparison' = comp
               /\ results' = Append(results,
                      test_result(test_files[current_test], go_result, python_result, comp))
    /\ pc' = IF current_test < Len(test_files) THEN "run_go_gameid" ELSE "generate_report"
    /\ UNCHANGED <<nv, test_files, current_test, go_result, python_result, report,
                   artifacts, exit_code, running, log, captured, sampleVars>>

\* generate_report(results) and the exit of main; an exception that escapes
\* main ends the interpreter with status 1
GenerateReport ==
    /\ pc = "generate_report"
    /\ report' = generate_report(results)
    /\ artifacts' = generate_report(results).written
    /\ exit_code' = IF generate_report(results).raised
                    THEN 1
                    ELSE main_exit_code(generate_report(results).value)
    /\ pc' = "exit_reported"
    /\ UNCHANGED <<nv, test_files, current_test, go_result, python_result, comparison,
                   results, running, log, captured, sampleVars>>

\* the positions of main inside the loop of run_tests
LoopPositions ==
    {"run_go_gameid", "go_running", "run_python_gameid", "python_running",
     "compare_results"}

\* the operator's Ctrl-C while run_tests loops: KeyboardInterrupt is not an
\* Exception, so run_command does not catch it; subprocess.run kills its child
\* and re-raises; neither run_tests nor main has a handler, so the interpreter
\* ends (status 130) before generate_report is reached
Interrupt ==
    /\ pc \in LoopPositions
    /\ running' = {}
    /\ pc' = "exit_interrupted"
    /\ exit_code' = 130
    /\ UNCHANGED <<nv, test_files, current_test, go_result, python_result, comparison,
                   results, report, artifacts, log, captured, sampleVars>>

\* the steps main takes by itself
MainNext ==
    \/ SetupEnvironment
    \/ FindTestFiles
    \/ StartGo
    \/ RunGo
    \/ StartPython
    \/ RunPython
    \/ Compare
    \/ GenerateReport

Next ==
    \/ MainNext
    \/ Interrupt

Spec == Init /\ [][Next]_vars

\* some executed case has comparison.passed = false
SomeCaseFailed == \E i \in DOMAIN results : ~results[i].comparison.passed

\* main has exited after a successful setup
ExitedAfterSetup == pc \in {"exit_no_tests", "exit_reported"}

\* C10 as stated: after successful setup the run exits non-zero if and only if
\* some executed case failed; in particular an empty corpus exits zero.
C10_Original == ExitedAfterSetup => (exit_code # 0 <=> SomeCaseFailed)

\* C10 amended: after successful setup the run exits non-zero if and only if
\* some executed case failed or no case was executed (an empty corpus exits 1).
C10_ExitStatus ==
    ExitedAfterSetup => (exit_code # 0 <=> (SomeCaseFailed \/ results = <<>>))

\* a run of two cases, the first passed and the second failed, has exited
C10_Witness ==
    /\ pc = "exit_reported"
    /\ Len(results) = 2
    /\ results[1].comparison.passed
    /\ ~results[2].comparison.passed
    /\ exit_code = 1

\* C11: a child process that never exits is terminated by the runner after a
\* bounded wait, its case is recorded with a timeout error and the run
\* proceeds: while a started case waits on such a child, main always has a
\* step of its own to take towards recording the case.
C11_HungChildIsTimedOut ==
    (\E p \in running : p.hangs) => ENABLED MainNext

\* C12: when the operator interrupts the run between cases, after k of the n
\* cases have completed, a report covering exactly the k completed cases is
\* still emitted, as both artifacts.
C12_InterruptedRunReports ==
    (pc = "exit_interrupted" /\ Len(results) = current_test /\ Len(results) >= 1) =>
        /\ report.tag = "report"
        /\ ~report.raised
        /\ report.value.summary.total_tests = Len(results)
        /\ artifacts = { JsonPath, SummaryPath }

\* what run_command returned to run_go_gameid / run_python_gameid for a case
returned(case, side) ==
    LET j == CHOOSE k \in DOMAIN log :
                 log[k].event = "return" /\ log[k].case = case /\ log[k].side = side
    IN  log[j].proc

\* run_tests has returned its results to main
RunTestsReturned == pc \in {"generate_report", "exit_reported"}

\* C13: whatever the per-case outcomes are on either side (success, non-zero
\* exit, failure to launch), run_tests does not stop early: it returns
\* exactly one result per discovered test file, in order, and a case's error
\* is stored in that case's result.
C13_OneResultPerFile ==
    /\ RunTestsReturned =>
           /\ Len(results) = Len(test_files)
           /\ \A i \in DOMAIN results :
                  /\ results[i].console = test_files[i].console
                  /\ results[i].filepath = test_files[i].filepath
    /\ \A i \in DOMAIN results :
           /\ Truthy(results[i].go_result.error) <=> returned(i, "go").returncode # 0
           /\ Truthy(results[i].python_result.error)
                  <=> returned(i, "python").returncode # 0

\* two files: the Go program could not be launched for the first, the
\* reference program exited non-zero for the second, every other run succeeded
C13_Witness ==
    /\ pc = "exit_reported"
    /\ Len(results) = 2
    /\ returned(1, "go") = LaunchError
    /\ returned(1, "python").returncode = 0
    /\ returned(2, "go").returncode = 0
    /\ returned(2, "python").returncode = 1
    /\ returned(2, "python") # LaunchError

\* the report's entries under a dict of lists that name the file
entries_for(d, filepath) ==
    UNION { { <<key, j>> : j \in { k \in DOMAIN d.val[key] :
                                      d.val[key][k].file = filepath } } :
            key \in Range(d.keys) }

\* C14: when the Go program exits non-zero and the reference succeeds, the Go
\* outcome has error set from the captured stderr and an empty field map, the
\* comparison is failed with empty differences and missing lists, the case
\* adds nothing to field_differences or missing_fields and it is listed in
\* the 'go' error bucket and in no other.
C14_GoOnlyError ==
    (pc = "exit_reported" /\ ~report.raised) =>
        \A i \in DOMAIN results :
            (returned(i, "go").returncode # 0 /\ returned(i, "python").returncode = 0) =>
                /\ results[i].go_result =
                       [error |-> Str(CommandFailed \o returned(i, "go").stderr),
                        fields |-> <<>>]
                /\ ~results[i].comparison.passed
                /\ NoLists(results[i].comparison)
                /\ entries_for(report.value.field_differences, results[i].filepath) = {}
                /\ entries_for(report.value.missing_fields.go, results[i].filepath) = {}
                /\ entries_for(report.value.missing_fields.python,
                               results[i].filepath) = {}
                /\ results[i] \in Range(report.value.error_cases.go)
                /\ results[i] \notin Range(report.value.error_cases.python)
                /\ results[i] \notin Range(report.value.error_cases.both)

\* the Go program exited 1 with "unsupported" on stderr for the first file
\* while the reference printed its fields; the second file differed in a value
C14_Witness ==
    /\ pc = "exit_reported"
    /\ Len(results) = 2
    /\ returned(1, "go").returncode = 1
    /\ returned(1, "go").stderr = <<"u","n","s","u","p","p","o","r","t","e","d">>
    /\ returned(1, "python").returncode = 0
    /\ Len(report.value.error_cases.go) = 1
    /\ report.value.field_differences.keys # <<>>

\* the n-th entry of log is the n-th event of a run in which every case calls
\* the two programs one after the other in the order sides[1], sides[2]
nth_event_is(e, n, sides) ==
    /\ e.case = ((n - 1) \div 4) + 1
    /\ e.side = sides[(((n - 1) % 4) \div 2) + 1]
    /\ e.event = IF (n - 1) % 2 = 0 THEN "call" ELSE "return"

\* C20 as stated: for every case the two runs are strictly sequential in the
\* order reference (Python) first, candidate (Go) second, both finish before
\* the next case starts, and never are two identification processes alive.
C20_Original ==
    /\ \A n \in DOMAIN log : nth_event_is(log[n], n, <<"python", "go">>)
    /\ Cardinality(running) <= 1

\* C20 amended: for every case run_tests runs the candidate (Go) first and
\* the reference (Python) second, each call returning before the next is
\* made and both before the next case starts; a process is alive only
\* between its call and its return, so never two at once.
C20_Sequential ==
    /\ \A n \in DOMAIN log : nth_event_is(log[n], n, <<"go", "python">>)
    /\ Cardinality(running) <= 1
    /\ \A p \in running : log # <<>> /\ log[Len(log)] = call_event(current_test, p.side)

\* the reference program of the second case is alive: the Go run of that case
\* and both runs of the first case have returned
C20_Witness ==
    /\ pc = "python_running"
    /\ current_test = 2
    /\ Len(log) = 7
    /\ running = { [side |-> "python", hangs |-> FALSE] }
    /\ Len(results) = 1

\* the number of times a result is listed in an error bucket
listed(bucket, result) == Cardinality({ j \in DOMAIN bucket : bucket[j] = result })

\* the error bucket a result belongs in, from the sides that errored
side_of(result) ==
    CASE Truthy(result.go_result.error) /\ Truthy(result.python_result.error) -> "both"
      [] Truthy(result.go_result.error) /\ ~Truthy(result.python_result.error) -> "go"
      [] ~Truthy(result.go_result.error) /\ Truthy(result.python_result.error) -> "python"
      [] OTHER -> "none"

\* C23: after generate_report over a sequence of results, passed_tests +
\* failed_tests = total_tests; every result with an error is listed in exactly
\* one of the error buckets go / python / both, the one of the side(s) that
\* errored; no error-free result is listed in any bucket; and a result with an
\* error adds no entry to field_differences or missing_fields.
C23_ReportBuckets ==
    pc = "reported" =>
        LET rep == report.dumped
        IN  /\ rep.summary.total_tests = Len(results)
            /\ rep.summary.passed_tests + rep.summary.failed_tests
                   = rep.summary.total_tests
            /\ \A i \in DOMAIN results :
                   /\ \A side \in {"go", "python", "both"} :
                          listed(rep.error_cases[side], results[i])
                              = IF side = side_of(results[i]) THEN 1 ELSE 0
                   /\ side_of(results[i]) # "none" =>
                          /\ entries_for(rep.field_differences, results[i].filepath) = {}
                          /\ entries_for(rep.missing_fields.go, results[i].filepath) = {}
                          /\ entries_for(rep.missing_fields.python,
                                         results[i].filepath) = {}

\* a report over two results: both runs of the first failed, the second is
\* free of errors and differs in a value
C23_Witness ==
    /\ pc = "reported"
    /\ Len(results) = 2
    /\ side_of(results[1]) = "both"
    /\ side_of(results[2]) = "none"
    /\ results[2].comparison.differences # <<>>
    /\ Len(report.dumped.error_cases.both) = 1
    /\ report.dumped.field_differences.keys # <<>>

----------------------------------------------------------------------------
(* create_test_samples: bytearray and struct                               *)

\* bytearray(n): n zero bytes.  b holds the bytes at the offsets written so
\* far; every other byte of the buffer is still 0.
bytearray(n) == [size |-> n, b |-> <<>>]

\* data[i]
byte_at(d, i) == IF i \in DOMAIN d.b THEN d.b[i] ELSE 0

\* data[i] = v, for i inside the buffer
set_item(d, i, v) == [d EXCEPT !.b = (i :> v) @@ d.b]

\* data[lo:hi] = bytes.  Python clamps the slice to the buffer and replaces it
\* by bytes whatever their number: the buffer grows or shrinks by the
\* difference and the bytes behind the slice move.
set_slice(d, lo, hi, bytes) ==
    LET start == Min(lo, d.size)
        stop  == Max(Min(hi, d.size), start)
        n     == Len(bytes)
        shift == n - (stop - start)
        kept  == { i \in DOMAIN d.b : i < start }
        moved == { i \in DOMAIN d.b : i >= stop }
    IN  [size |-> d.size + shift,
         b    |-> [i \in kept \cup (start..(start + n - 1)) \cup { j + shift : j \in moved } |->
                      IF i < start THEN d.b[i]
                      ELSE IF i < start + n THEN bytes[i - start + 1]
                      ELSE d.b[i - shift]]]

\* bytes.ljust(width, pad): pads on the right, never shortens
\* a slip that leaves a short value unpadded
ljust_no_pad(bytes, width, pad) == bytes

ljust(bytes, width, pad) ==
    IF Len(bytes) >= width
    THEN bytes
    ELSE bytes \o [i \in 1..(width - Len(bytes)) |-> pad]

RECURSIVE sum_over(_, _)
sum_over(d, offsets) ==
    IF offsets = {}
    THEN 0
    ELSE LET i == CHOOSE j \in offsets : TRUE
         IN  d.b[i] + sum_over(d, offsets \ {i})

\* sum(data)
sum(d) == sum_over(d, DOMAIN d.b)

\* a slip that packs the low byte first
struct_pack_be_H_low_first(v) == << v % 256, v \div 256 >>

\* struct.pack('>H', v)
struct_pack_be_H(v) == << v \div 256, v % 256 >>

\* struct.pack('<H', v)
struct_pack_le_H(v) == << v % 256, v \div 256 >>

\* one write of a creator's table applied to the buffer
apply_write(d, w) ==
    IF w.kind = "item"
    THEN set_item(d, w.lo, w.bytes[1])
    ELSE set_slice(d, w.lo, w.hi, w.bytes)

----------------------------------------------------------------------------
(* create_test_samples: the creators                                       *)

\* the field writes of create_gba_sample (lines 23-69), in program order
create_gba_sample_fields ==
    << [kind |-> "slice", lo |-> 0, hi |-> 4, bytes |-> <<0,0,0,234>>],  \* line 29: b'\x00\x00\x00\xea'
       [kind |-> "slice", lo |-> 4, hi |-> 160, bytes |-> <<36,255,174,81,105,154,162,33,61,132,
            130,10,132,228,9,173,17,36,139,152,192,129,127,33,163,82,190,25,147,9,206,32,16,70,
            74,74,248,39,49,236,88,199,232,51,130,227,206,191,133,244,223,148,206,75,9,193,148,
            86,138,192,19,114,167,252,159,132,77,115,163,202,154,97,88,151,163,39,252,3,152,118,
            35,29,199,97,3,4,174,86,191,56,132,0,64,167,14,253,255,82,254,3,111,149,48,241,151,
            251,192,133,96,214,128,37,169,99,190,3,1,78,56,226,249,162,52,255,187,62,3,68,120,0,
            144,203,136,17,58,148,101,192,124,99,135,240,60,175,214,37,228,139,56,10,172,114,33,
            212,248,7>>],  \* line 33
       [kind |-> "slice", lo |-> 160, hi |-> 172, bytes |-> ljust(<<84,69,83,84,32,71,65,77,69>>,
            12, 0)],  \* line 37: b'TEST GAME'
       [kind |-> "slice", lo |-> 172, hi |-> 176, bytes |-> <<84,69,83,84>>],  \* line 41: b'TEST'
       [kind |-> "slice", lo |-> 176, hi |-> 178, bytes |-> <<48,49>>],  \* line 45: b'01'
       [kind |-> "item", lo |-> 178, hi |-> 179, bytes |-> << 150 >>],  \* line 48
       [kind |-> "item", lo |-> 179, hi |-> 180, bytes |-> << 0 >>],  \* line 51
       [kind |-> "item", lo |-> 180, hi |-> 181, bytes |-> << 0 >>],  \* line 54
       [kind |-> "slice", lo |-> 181, hi |-> 188, bytes |-> <<0,0,0,0,0,0,0>>],  \* line 57: b'\x00\x00\x00\x00\x00\x00\x00'
       [kind |-> "item", lo |-> 188, hi |-> 189, bytes |-> << 0 >>],  \* line 60
       [kind |-> "item", lo |-> 189, hi |-> 190, bytes |-> << 0 >>],  \* line 63
       [kind |-> "slice", lo |-> 190, hi |-> 192, bytes |-> <<0,0>>] >>  \* line 66: b'\x00\x00'

\* the field writes of create_gb_sample (lines 71-131), in program order
create_gb_sample_fields ==
    << [kind |-> "slice", lo |-> 256, hi |-> 260, bytes |-> <<0,195,80,1>>],  \* line 76: b'\x00\xc3P\x01'
       [kind |-> "slice", lo |-> 260, hi |-> 308, bytes |-> <<206,237,102,102,204,13,0,11,3,115,
            0,131,0,12,0,13,0,8,17,31,136,137,0,14,220,204,110,230,221,221,217,153,187,187,103,
            99,110,14,236,204,221,220,153,159,187,185,51,62>>],  \* line 80
       [kind |-> "slice", lo |-> 308, hi |-> 319, bytes |-> ljust(<<84,69,83,84,32,71,65,77,69>>,
            11, 0)],  \* line 84: b'TEST GAME'
       [kind |-> "slice", lo |-> 319, hi |-> 323, bytes |-> <<0,0,0,0>>],  \* line 87: b'\x00\x00\x00\x00'
       [kind |-> "item", lo |-> 323, hi |-> 324, bytes |-> << 0 >>],  \* line 90
       [kind |-> "slice", lo |-> 324, hi |-> 326, bytes |-> <<48,49>>],  \* line 93: b'01'
       [kind |-> "item", lo |-> 326, hi |-> 327, bytes |-> << 0 >>],  \* line 96
       [kind |-> "item", lo |-> 327, hi |-> 328, bytes |-> << 0 >>],  \* line 99
       [kind |-> "item", lo |-> 328, hi |-> 329, bytes |-> << 0 >>],  \* line 102
       [kind |-> "item", lo |-> 329, hi |-> 330, bytes |-> << 0 >>],  \* line 105
       [kind |-> "item", lo |-> 330, hi |-> 331, bytes |-> << 1 >>],  \* line 108
       [kind |-> "item", lo |-> 331, hi |-> 332, bytes |-> << 51 >>],  \* line 111
       [kind |-> "item", lo |-> 332, hi |-> 333, bytes |-> << 0 >>] >>  \* line 114

\* the field writes of create_snes_sample (lines 133-174), in program order
create_snes_sample_fields ==
    << [kind |-> "slice", lo |-> 32704, hi |-> 32725, bytes |-> ljust(<<84,69,83,84,32,71,65,77,
            69>>, 21, 32)],  \* line 143: b'TEST GAME'
       [kind |-> "item", lo |-> 32725, hi |-> 32726, bytes |-> << 32 >>],  \* line 146
       [kind |-> "item", lo |-> 32726, hi |-> 32727, bytes |-> << 0 >>],  \* line 149
       [kind |-> "item", lo |-> 32727, hi |-> 32728, bytes |-> << 10 >>],  \* line 152
       [kind |-> "item", lo |-> 32728, hi |-> 32729, bytes |-> << 0 >>],  \* line 155
       [kind |-> "item", lo |-> 32729, hi |-> 32730, bytes |-> << 1 >>],  \* line 158
       [kind |-> "item", lo |-> 32730, hi |-> 32731, bytes |-> << 0 >>],  \* line 161
       [kind |-> "item", lo |-> 32731, hi |-> 32732, bytes |-> << 0 >>] >>  \* line 164

\* the field writes of create_n64_sample (lines 176-221), in program order
create_n64_sample_fields ==
    << [kind |-> "slice", lo |-> 0, hi |-> 4, bytes |-> <<128,55,18,64>>],  \* line 181: b'\x807\x12@'
       [kind |-> "slice", lo |-> 4, hi |-> 8, bytes |-> <<0,0,0,15>>],  \* line 184: b'\x00\x00\x00\x0f'
       [kind |-> "slice", lo |-> 8, hi |-> 12, bytes |-> <<128,0,4,0>>],  \* line 187: b'\x80\x00\x04\x00'
       [kind |-> "slice", lo |-> 12, hi |-> 16, bytes |-> <<0,0,20,68>>],  \* line 190: b'\x00\x00\x14D'
       [kind |-> "slice", lo |-> 16, hi |-> 20, bytes |-> <<0,0,0,0>>],  \* line 193: b'\x00\x00\x00\x00'
       [kind |-> "slice", lo |-> 20, hi |-> 24, bytes |-> <<0,0,0,0>>],  \* line 196: b'\x00\x00\x00\x00'
       [kind |-> "slice", lo |-> 24, hi |-> 32, bytes |-> <<0,0,0,0,0,0,0,0>>],  \* line 199: b'\x00\x00\x00\x00\x00\x00\x00\x00'
       [kind |-> "slice", lo |-> 32, hi |-> 52, bytes |-> ljust(<<84,69,83,84,32,71,65,77,69>>,
            20, 32)],  \* line 203: b'TEST GAME'
       [kind |-> "slice", lo |-> 52, hi |-> 56, bytes |-> <<0,0,0,0>>],  \* line 206: b'\x00\x00\x00\x00'
       [kind |-> "slice", lo |-> 56, hi |-> 60, bytes |-> <<0,0,0,0>>],  \* line 209: b'\x00\x00\x00\x00'
       [kind |-> "slice", lo |-> 60, hi |-> 62, bytes |-> <<78,84>>],  \* line 212: b'NT'
       [kind |-> "item", lo |-> 62, hi |-> 63, bytes |-> << 69 >>],  \* line 215
       [kind |-> "item", lo |-> 63, hi |-> 64, bytes |-> << 0 >>] >>  \* line 218

\* the field writes of create_genesis_sample (lines 223-269), in program order
create_genesis_sample_fields ==
    << [kind |-> "slice", lo |-> 256, hi |-> 272, bytes |-> ljust(<<83,69,71,65,32,71,69,78,69,
            83,73,83>>, 16, 32)],  \* line 232: b'SEGA GENESIS'
       [kind |-> "slice", lo |-> 272, hi |-> 276, bytes |-> <<32,32,32,32>>],  \* line 235: b'    '
       [kind |-> "slice", lo |-> 280, hi |-> 288, bytes |-> <<49,57,57,48,46,48,49,32>>],  \* line 238: b'1990.01 '
       [kind |-> "slice", lo |-> 288, hi |-> 336, bytes |-> ljust(<<84,69,83,84,32,71,65,77,69>>,
            48, 32)],  \* line 242: b'TEST GAME'
       [kind |-> "slice", lo |-> 336, hi |-> 384, bytes |-> ljust(<<84,69,83,84,32,71,65,77,69>>,
            48, 32)],  \* line 246: b'TEST GAME'
       [kind |-> "slice", lo |-> 384, hi |-> 395, bytes |-> <<71,77,32,48,48,48,48,48,48,48,
            48>>],  \* line 250: b'GM 00000000'
       [kind |-> "slice", lo |-> 398, hi |-> 400, bytes |-> <<0,0>>],  \* line 253: b'\x00\x00'
       [kind |-> "slice", lo |-> 400, hi |-> 416, bytes |-> ljust(<<74>>, 16, 32)],  \* line 257: b'J'
       [kind |-> "slice", lo |-> 416, hi |-> 424, bytes |-> <<0,0,0,0,0,7,255,255>>],  \* line 260: b'\x00\x00\x00\x00\x00\x07\xff\xff'
       [kind |-> "slice", lo |-> 424, hi |-> 432, bytes |-> <<0,0,0,0,0,0,0,0>>],  \* line 263: b'\x00\x00\x00\x00\x00\x00\x00\x00'
       [kind |-> "slice", lo |-> 496, hi |-> 499, bytes |-> <<74,85,69>>] >>  \* line 266: b'JUE'

\* the field writes of create_basic_iso (lines 271-341), in program order
create_basic_iso_fields(system_id, volume_id) ==
    << [kind |-> "item", lo |-> 32768, hi |-> 32769, bytes |-> << 1 >>],  \* line 279
       [kind |-> "slice", lo |-> 32769, hi |-> 32774, bytes |-> <<67,68,48,48,49>>],  \* line 282: b'CD001'
       [kind |-> "item", lo |-> 32774, hi |-> 32775, bytes |-> << 1 >>],  \* line 285
       [kind |-> "item", lo |-> 32775, hi |-> 32776, bytes |-> << 0 >>],  \* line 288
       [kind |-> "slice", lo |-> 32776, hi |-> 32808, bytes |-> ljust(system_id, 32, 32)],  \* line 292
       [kind |-> "slice", lo |-> 32808, hi |-> 32840, bytes |-> ljust(volume_id, 32, 32)],  \* line 296
       [kind |-> "slice", lo |-> 32848, hi |-> 32856, bytes |-> <<0,0,0,32,32,0,0,0>>],  \* line 299: b'\x00\x00\x00  \x00\x00\x00'
       [kind |-> "slice", lo |-> 32888, hi |-> 32892, bytes |-> <<1,0,0,1>>],  \* line 302: b'\x01\x00\x00\x01'
       [kind |-> "slice", lo |-> 32892, hi |-> 32896, bytes |-> <<1,0,0,1>>],  \* line 305: b'\x01\x00\x00\x01'
       [kind |-> "slice", lo |-> 32896, hi |-> 32900, bytes |-> <<0,8,8,0>>],  \* line 308: b'\x00\x08\x08\x00'
       [kind |-> "item", lo |-> 32924, hi |-> 32925, bytes |-> << 34 >>],  \* line 312
       [kind |-> "item", lo |-> 32925, hi |-> 32926, bytes |-> << 0 >>],  \* line 313
       [kind |-> "slice", lo |-> 32926, hi |-> 32930, bytes |-> <<18,0,0,0>>],  \* line 314: b'\x12\x00\x00\x00'
       [kind |-> "slice", lo |-> 32930, hi |-> 32934, bytes |-> <<0,0,0,18>>],  \* line 315: b'\x00\x00\x00\x12'
       [kind |-> "slice", lo |-> 32934, hi |-> 32938, bytes |-> <<0,8,0,0>>],  \* line 316: b'\x00\x08\x00\x00'
       [kind |-> "slice", lo |-> 32938, hi |-> 32942, bytes |-> <<0,0,8,0>>],  \* line 317: b'\x00\x00\x08\x00'
       [kind |-> "slice", lo |-> 32942, hi |-> 32949, bytes |-> <<0,0,0,0,0,0,0>>],  \* line 320: b'\x00\x00\x00\x00\x00\x00\x00'
       [kind |-> "item", lo |-> 32949, hi |-> 32950, bytes |-> << 2 >>],  \* line 323
       [kind |-> "item", lo |-> 32950, hi |-> 32951, bytes |-> << 0 >>],  \* line 326
       [kind |-> "item", lo |-> 32951, hi |-> 32952, bytes |-> << 0 >>],  \* line 329
       [kind |-> "slice", lo |-> 32952, hi |-> 32956, bytes |-> <<1,0,0,1>>],  \* line 332: b'\x01\x00\x00\x01'
       [kind |-> "item", lo |-> 32956, hi |-> 32957, bytes |-> << 1 >>],  \* line 335
       [kind |-> "item", lo |-> 32957, hi |-> 32958, bytes |-> << 0 >>] >>  \* line 338

\* the field writes of create_saturn_sample (lines 351-388), in program order
create_saturn_sample_fields ==
    << [kind |-> "slice", lo |-> 0, hi |-> 16, bytes |-> <<83,69,71,65,32,83,69,71,65,83,65,84,
            85,82,78,32>>],  \* line 360: b'SEGA SEGASATURN '
       [kind |-> "slice", lo |-> 16, hi |-> 32, bytes |-> <<83,69,71,65,32,84,80,32,84,45,48,48,
            48,32,32,32>>],  \* line 363: b'SEGA TP T-000   '
       [kind |-> "slice", lo |-> 32, hi |-> 42, bytes |-> <<84,45,48,48,48,32,32,32,32,32>>],  \* line 366: b'T-000     '
       [kind |-> "slice", lo |-> 42, hi |-> 48, bytes |-> <<86,49,46,48,48,48>>],  \* line 369: b'V1.000'
       [kind |-> "slice", lo |-> 48, hi |-> 56, bytes |-> <<49,57,57,53,48,49,48,49>>],  \* line 372: b'19950101'
       [kind |-> "slice", lo |-> 56, hi |-> 64, bytes |-> <<32,32,32,32,32,32,32,32>>],  \* line 375: b'        '
       [kind |-> "slice", lo |-> 64, hi |-> 80, bytes |-> <<74,32,32,32,32,32,32,32,32,32,32,32,
            32,32,32,32>>],  \* line 378: b'J               '
       [kind |-> "slice", lo |-> 80, hi |-> 96, bytes |-> <<74,32,32,32,32,32,32,32,32,32,32,32,
            32,32,32,32>>],  \* line 381: b'J               '
       [kind |-> "slice", lo |-> 96, hi |-> 208, bytes |-> ljust(<<84,69,83,84,32,71,65,77,69>>,
            112, 32)] >>  \* line 385: b'TEST GAME'

\* the field writes of create_segacd_sample (lines 390-428), in program order
create_segacd_sample_fields ==
    << [kind |-> "slice", lo |-> 0, hi |-> 16, bytes |-> <<83,69,71,65,68,73,83,67,83,89,83,84,
            69,77,32,32>>],  \* line 399: b'SEGADISCSYSTEM  '
       [kind |-> "slice", lo |-> 16, hi |-> 27, bytes |-> <<83,69,71,65,67,68,32,32,32,32,32>>],  \* line 402: b'SEGACD     '
       [kind |-> "slice", lo |-> 32, hi |-> 43, bytes |-> <<83,69,71,65,67,68,32,32,32,32,32>>],  \* line 405: b'SEGACD     '
       [kind |-> "slice", lo |-> 384, hi |-> 400, bytes |-> <<71,77,32,48,48,48,48,48,48,48,48,
            45,48,48,32,32>>],  \* line 408: b'GM 00000000-00  '
       [kind |-> "slice", lo |-> 400, hi |-> 416, bytes |-> <<86,49,46,48,48,32,32,32,32,32,32,
            32,32,32,32,32>>],  \* line 411: b'V1.00           '
       [kind |-> "slice", lo |-> 408, hi |-> 412, bytes |-> <<49,57,57,51>>],  \* line 414: b'1993'
       [kind |-> "slice", lo |-> 413, hi |-> 416, bytes |-> <<74,65,78>>],  \* line 417: b'JAN'
       [kind |-> "slice", lo |-> 416, hi |-> 464, bytes |-> ljust(<<84,69,83,84,32,71,65,77,69>>,
            48, 32)],  \* line 421: b'TEST GAME'
       [kind |-> "slice", lo |-> 464, hi |-> 512, bytes |-> ljust(<<84,69,83,84,32,71,65,77,69>>,
            48, 32)] >>  \* line 425: b'TEST GAME'

\* the field writes of create_gamecube_sample (lines 430-466), in program order
create_gamecube_sample_fields ==
    << [kind |-> "slice", lo |-> 0, hi |-> 4, bytes |-> <<84,69,83,84>>],  \* line 438: b'TEST'
       [kind |-> "slice", lo |-> 4, hi |-> 6, bytes |-> <<48,49>>],  \* line 441: b'01'
       [kind |-> "item", lo |-> 6, hi |-> 7, bytes |-> << 0 >>],  \* line 444
       [kind |-> "item", lo |-> 7, hi |-> 8, bytes |-> << 0 >>],  \* line 447
       [kind |-> "item", lo |-> 8, hi |-> 9, bytes |-> << 0 >>],  \* line 450
       [kind |-> "item", lo |-> 9, hi |-> 10, bytes |-> << 0 >>],  \* line 453
       [kind |-> "slice", lo |-> 10, hi |-> 24, bytes |-> <<0,0,0,0,0,0,0,0,0,0,0,0,0,0>>],  \* line 456: b'\x00\x00\x00\x00\x00\x00\x00\x00\x00\x00\x00\x00\x00\x00'
       [kind |-> "slice", lo |-> 28, hi |-> 32, bytes |-> <<194,51,159,61>>],  \* line 459: b'\xc23\x9f='
       [kind |-> "slice", lo |-> 32, hi |-> 1024, bytes |-> ljust(<<84,69,83,84,32,71,65,77,69>>,
            992, 0)] >>  \* line 463: b'TEST GAME'

\* the samples list of main: relative path and creator
\* create_test_directory: the console directories made under testdata/
consoles ==
    <<"gb", "gba", "gc", "genesis", "n64", "psp", "psx", "ps2", "saturn", "segacd",
      "snes">>

\* find_test_files: the console each directory under testdata/ is tested as
console_dirs ==
    [d \in {"gb", "gba", "gc", "genesis", "n64", "psp", "psx", "ps2", "saturn",
            "segacd", "snes"} |->
        CASE d = "gb"      -> "GB"
          [] d = "gba"     -> "GBA"
          [] d = "gc"      -> "GC"
          [] d = "genesis" -> "Genesis"
          [] d = "n64"     -> "N64"
          [] d = "psp"     -> "PSP"
          [] d = "psx"     -> "PSX"
          [] d = "ps2"     -> "PS2"
          [] d = "saturn"  -> "Saturn"
          [] d = "segacd"  -> "SegaCD"
          [] d = "snes"    -> "SNES"]

\* main's samples list: relative path (with its directory part) and creator
samples ==
    << [dir |-> "gb", path |-> "gb/test_game.gb", creator |-> "create_gb_sample"],
       [dir |-> "gba", path |-> "gba/test_game.gba", creator |-> "create_gba_sample"],
       [dir |-> "snes", path |-> "snes/test_game.sfc", creator |-> "create_snes_sample"],
       [dir |-> "n64", path |-> "n64/test_game.n64", creator |-> "create_n64_sample"],
       [dir |-> "genesis", path |-> "genesis/test_game.gen", creator |-> "create_genesis_sample"],
       [dir |-> "psx", path |-> "psx/test_game.bin", creator |-> "create_psx_sample"],
       [dir |-> "psp", path |-> "psp/test_game.iso", creator |-> "create_psp_sample"],
       [dir |-> "saturn", path |-> "saturn/test_game.iso", creator |-> "create_saturn_sample"],
       [dir |-> "segacd", path |-> "segacd/test_game.iso", creator |-> "create_segacd_sample"],
       [dir |-> "gc", path |-> "gc/test_game.iso", creator |-> "create_gamecube_sample"] >>

\* the size each creator passes to bytearray
creator_size(creator) ==
    CASE creator = "create_gb_sample"       -> 32768    \* 0x8000
      [] creator = "create_gba_sample"      -> 512      \* 0x200
      [] creator = "create_snes_sample"     -> 1048576  \* 0x100000
      [] creator = "create_n64_sample"      -> 1048576  \* 0x100000
      [] creator = "create_genesis_sample"  -> 524288   \* 0x80000
      [] creator = "create_psx_sample"      -> 65536    \* 0x10000, create_basic_iso
      [] creator = "create_psp_sample"      -> 65536    \* 0x10000, create_basic_iso
      [] creator = "create_saturn_sample"   -> 65536    \* 0x10000
      [] creator = "create_segacd_sample"   -> 65536    \* 0x10000
      [] creator = "create_gamecube_sample" -> 65536    \* 0x10000

\* the field writes of each creator; the PSX and PSP creators call
\* create_basic_iso with "PLAYSTATION", "SLUS_012.34" and "PSP GAME", "ULUS10000"
creator_fields(creator) ==
    CASE creator = "create_gb_sample"       -> create_gb_sample_fields
      [] creator = "create_gba_sample"      -> create_gba_sample_fields
      [] creator = "create_snes_sample"     -> create_snes_sample_fields
      [] creator = "create_n64_sample"      -> create_n64_sample_fields
      [] creator = "create_genesis_sample"  -> create_genesis_sample_fields
      [] creator = "create_psx_sample"      ->
             create_basic_iso_fields(<<80,76,65,89,83,84,65,84,73,79,78>>,
                                     <<83,76,85,83,95,48,49,50,46,51,52>>)
      [] creator = "create_psp_sample"      ->
             create_basic_iso_fields(<<80,83,80,32,71,65,77,69>>,
                                     <<85,76,85,83,49,48,48,48,48>>)
      [] creator = "create_saturn_sample"   -> create_saturn_sample_fields
      [] creator = "create_segacd_sample"   -> create_segacd_sample_fields
      [] creator = "create_gamecube_sample" -> create_gamecube_sample_fields

\* create_gb_sample: range(0x134, 0x14D) of the header checksum loop
GbHeaderFirst == 308

\* create_gb_sample: 0x14D, the header checksum byte
GbHeaderChecksumAt == 333

\* create_gb_sample: 0x14E, the first byte of the global checksum
GbGlobalChecksumAt == 334

\* create_snes_sample: header_start = 0x7FC0
SnesHeaderStart == 32704

\* a slip that leaves out the "- 1" of the rolling complement
gb_checksum_step_no_decrement(acc, byte) == (acc - byte) % 256

\* checksum = (checksum - data[i] - 1) & 0xFF
gb_checksum_step(acc, byte) == (acc - byte - 1) % 256

\* the global checksum loop: every byte but those at 0x14E and 0x14F, & 0xFFFF
gb_global_checksum(d) ==
    sum_over(d, DOMAIN d.b \ { GbGlobalChecksumAt, GbGlobalChecksumAt + 1 }) % 65536

\* checksum = sum(data) & 0xFFFF
snes_checksum(d) == sum(d) % 65536

\* a slip that takes the two's complement
snes_complement_twos(c) == (65536 - c) % 65536

\* complement = (0xFFFF - checksum) & 0xFFFF
snes_complement(c) == (65535 - c) % 65536

----------------------------------------------------------------------------
(* SpecSamples: create_test_samples.main                                   *)

\* the creator main is running
creator == samples[spc.sample].creator

InitSamples ==
    /\ spc = [sample |-> 1, stage |-> "create_test_directory", k |-> 0]
    /\ data = [size |-> 0, b |-> <<>>]
    /\ checksum = 0
    /\ files = <<>>
    /\ dirs = {}
    /\ iso_args = None
    /\ NormIdle
    /\ HarnessIdle

\* create_test_directory(): mkdir of every console directory
CreateTestDirectory ==
    /\ spc.stage = "create_test_directory"
    /\ dirs' = dirs \cup { consoles[i] : i \in DOMAIN consoles }
    /\ spc' = [spc EXCEPT !.stage = "alloc"]
    /\ UNCHANGED <<nv, harnessVars, data, checksum, files, iso_args>>

\* data = bytearray(size)
Alloc ==
    /\ spc.stage = "alloc"
    /\ data' = bytearray(creator_size(creator))
    /\ spc' = [spc EXCEPT !.stage = "fields", !.k = 1]
    /\ UNCHANGED <<nv, harnessVars, checksum, files, dirs, iso_args>>

\* the stage that follows a creator's field writes
after_fields(c) ==
    CASE c = "create_gb_sample"   -> "gb_header_checksum"
      [] c = "create_snes_sample" -> "snes_checksum"
      [] OTHER                    -> "write_file"

\* the next header field assignment of the running creator
WriteField ==
    /\ spc.stage = "fields"
    /\ data' = apply_write(data, creator_fields(creator)[spc.k])
    /\ spc' = IF spc.k < Len(creator_fields(creator))
              THEN [spc EXCEPT !.k = spc.k + 1]
              ELSE [spc EXCEPT !.stage = after_fields(creator), !.k = 0]
    /\ UNCHANGED <<nv, harnessVars, checksum, files, dirs, iso_args>>

\* create_gb_sample: checksum = 0 and the start of the loop over range(0x134, 0x14D)
GbHeaderChecksumStart ==
    /\ spc.stage = "gb_header_checksum"
    /\ checksum' = 0
    /\ spc' = [spc EXCEPT !.stage = "gb_header_checksum_loop", !.k = GbHeaderFirst]
    /\ UNCHANGED <<nv, harnessVars, data, files, dirs, iso_args>>

\* one iteration of the header checksum loop
GbHeaderChecksumStep ==
    /\ spc.stage = "gb_header_checksum_loop"
    /\ spc.k < GbHeaderChecksumAt
    /\ checksum' = gb_checksum_step(checksum, byte_at(data, spc.k))
    /\ spc' = [spc EXCEPT !.k = spc.k + 1]
    /\ UNCHANGED <<nv, harnessVars, data, files, dirs, iso_args>>

\* data[0x14D] = checksum
GbHeaderChecksumStore ==
    /\ spc.stage = "gb_header_checksum_loop"
    /\ spc.k = GbHeaderChecksumAt
    /\ data' = set_item(data, GbHeaderChecksumAt, checksum)
    /\ spc' = [spc EXCEPT !.stage = "gb_global_checksum", !.k = 0]
    /\ UNCHANGED <<nv, harnessVars, checksum, files, dirs, iso_args>>

\* the global checksum loop and data[0x14E:0x150] = struct.pack('>H', ...)
GbGlobalChecksum ==
    /\ spc.stage = "gb_global_checksum"
    /\ data' = set_slice(data, GbGlobalChecksumAt, GbGlobalChecksumAt + 2,
                         struct_pack_be_H(gb_global_checksum(data)))
    /\ spc' = [spc EXCEPT !.stage = "write_file"]
    /\ UNCHANGED <<nv, harnessVars, checksum, files, dirs, iso_args>>

\* create_snes_sample: the sum of the buffer as it is before either slot is
\* written, then the complement at header_start + 28 and the checksum at + 30
SnesChecksum ==
    /\ spc.stage = "snes_checksum"
    /\ checksum' = snes_checksum(data)
    /\ data' = set_slice(
                   set_slice(data, SnesHeaderStart + 28, SnesHeaderStart + 30,
                             struct_pack_le_H(snes_complement(snes_checksum(data)))),
                   SnesHeaderStart + 30, SnesHeaderStart + 32,
                   struct_pack_le_H(snes_checksum(data)))
    /\ spc' = [spc EXCEPT !.stage = "write_file"]
    /\ UNCHANGED <<nv, harnessVars, files, dirs, iso_args>>

\* with open(filepath, 'wb') as f: f.write(data); then the next sample of main
WriteFile ==
    /\ spc.stage = "write_file"
    /\ files' = (samples[spc.sample].path :> data) @@ files
    /\ spc' = IF spc.sample < Len(samples)
              THEN [sample |-> spc.sample + 1, stage |-> "alloc", k |-> 0]
              ELSE [spc EXCEPT !.stage = "done"]
    /\ UNCHANGED <<nv, harnessVars, data, checksum, dirs, iso_args>>

NextSamples ==
    \/ CreateTestDirectory
    \/ Alloc
    \/ WriteField
    \/ GbHeaderChecksumStart
    \/ GbHeaderChecksumStep
    \/ GbHeaderChecksumStore
    \/ GbGlobalChecksum
    \/ SnesChecksum
    \/ WriteFile

SpecSamples == InitSamples /\ [][NextSamples]_vars

GbPath == "gb/test_game.gb"

SnesPath == "snes/test_game.sfc"

\* the 16-bit little-endian value read back at an offset of an image
read_le16(d, at) == byte_at(d, at) + 256 * byte_at(d, at + 1)

\* the 16-bit big-endian value read back at an offset of an image
read_be16(d, at) == 256 * byte_at(d, at) + byte_at(d, at + 1)

\* the sum of every byte of an image: unwritten bytes are 0
image_sum(d) == sum_over(d, DOMAIN d.b)

RECURSIVE rolling_complement(_, _, _, _)
\* acc = (acc - byte - 1) mod 256 over the bytes first..last of an image
rolling_complement(d, first, last, acc) ==
    IF first > last
    THEN acc
    ELSE rolling_complement(d, first + 1, last, (acc - byte_at(d, first) - 1) % 256)

\* C3: in the image written by create_snes_sample the little-endian checksum
\* stored at 0x7FDE-0x7FDF equals the sum of all bytes of the written image,
\* the complement and checksum slots included, modulo 0x10000.
C3_SnesChecksumIsImageSum ==
    SnesPath \in DOMAIN files =>
        read_le16(files[SnesPath], SnesHeaderStart + 30) = image_sum(files[SnesPath]) % 65536

\* C4: in the image written by create_snes_sample the little-endian values at
\* 0x7FDC (complement) and 0x7FDE (checksum) sum to 0xFFFF modulo 0x10000, the
\* complement is the one in the slot just before the checksum: the value at
\* 0x7FDE is the byte sum of the image outside the two slots.
C4_SnesComplementPair ==
    SnesPath \in DOMAIN files =>
        LET img == files[SnesPath]
            slots == (SnesHeaderStart + 28)..(SnesHeaderStart + 31)
        IN  /\ (read_le16(img, SnesHeaderStart + 28) + read_le16(img, SnesHeaderStart + 30))
                   % 65536 = 65535
            /\ read_le16(img, SnesHeaderStart + 30)
                   = sum_over(img, DOMAIN img.b \ slots) % 65536
            /\ img.size = 1048576

\* the SNES image is on disk with a non-zero checksum and complement
C4_Witness ==
    /\ SnesPath \in DOMAIN files
    /\ read_le16(files[SnesPath], SnesHeaderStart + 30) > 0
    /\ read_le16(files[SnesPath], SnesHeaderStart + 28) > 0

\* C5: in the image written by create_gb_sample, the rolling complement
\* recomputed from 0 over bytes 0x134..0x14C of the written buffer is the byte
\* stored at 0x14D.
C5_GbHeaderChecksum ==
    GbPath \in DOMAIN files =>
        rolling_complement(files[GbPath], GbHeaderFirst, GbHeaderChecksumAt - 1, 0)
            = byte_at(files[GbPath], GbHeaderChecksumAt)

\* the GB image is on disk, with both checksums stored after the title
C5_Witness ==
    /\ GbPath \in DOMAIN files
    /\ byte_at(files[GbPath], GbHeaderFirst) = 84
    /\ byte_at(files[GbPath], GbHeaderChecksumAt) > 0
    /\ read_be16(files[GbPath], GbGlobalChecksumAt) > 0

\* C6: in the image written by create_gb_sample, the big-endian value at
\* 0x14E-0x14F is the sum modulo 65536 of every byte of the written buffer
\* other than those two, the header checksum byte at 0x14D included.
C6_GbGlobalChecksum ==
    GbPath \in DOMAIN files =>
        LET img == files[GbPath]
        IN  read_be16(img, GbGlobalChecksumAt)
                = (image_sum(img) - byte_at(img, GbGlobalChecksumAt)
                                  - byte_at(img, GbGlobalChecksumAt + 1)) % 65536

\* the GB image is on disk and its header checksum byte, which the global
\* checksum counts, is not zero
C6_Witness ==
    /\ GbPath \in DOMAIN files
    /\ byte_at(files[GbPath], GbHeaderChecksumAt) > 0
    /\ read_be16(files[GbPath], GbGlobalChecksumAt) > 255

\* the offsets a field write assigns
written_range(w) == w.lo .. (w.lo + Len(w.bytes) - 1)

\* the k-th field write of a creator is partly overwritten by a later one
overwritten_later(rows, k) ==
    \E m \in DOMAIN rows : m > k /\ written_range(rows[m]) \cap written_range(rows[k]) # {}

\* the bytes of a field write stand at its offset in the buffer f
holds_field(f, w) ==
    \A j \in 1..Len(w.bytes) : byte_at(f, w.lo + j - 1) = w.bytes[j]

C17_FieldsDisjoint ==
    spc.stage = "fields" =>
        LET rows == creator_fields(creator)
        IN  /\ written_range(rows[spc.k]) \subseteq 0..(data.size - 1)
            /\ \A m \in 1..(spc.k - 1) :
                   written_range(rows[m]) \cap written_range(rows[spc.k]) = {}

\* C18: the fixture generator is exhaustive over the declared console set:
\* when main has finished, every console directory made by
\* create_test_directory is one that find_test_files maps to a console and
\* holds at least one written fixture.
C18_EveryConsoleHasFixture ==
    spc.stage = "done" =>
        \A d \in dirs :
            /\ d \in DOMAIN console_dirs
            /\ \E i \in DOMAIN samples :
                   samples[i].dir = d /\ samples[i].path \in DOMAIN files

----------------------------------------------------------------------------
(* SpecIso: create_basic_iso called with identifiers of any length         *)

\* an ASCII identifier of n bytes, each byte telling its position
identifier(n) == [i \in 1..n |-> 64 + i]

\* identifier lengths: none, and the lengths around the 32-byte field width
IdLens == {0} \cup ((MaxIdLen - 3)..MaxIdLen)

IsoPath == "testdata/custom.iso"

InitIso ==
    /\ spc = [sample |-> 0, stage |-> "iso_alloc", k |-> 0]
    /\ iso_args \in { [system_id |-> identifier(n), volume_id |-> identifier(m)] :
                        n \in IdLens, m \in IdLens }
    /\ data = [size |-> 0, b |-> <<>>]
    /\ checksum = 0
    /\ files = <<>>
    /\ dirs = {}
    /\ NormIdle
    /\ HarnessIdle

\* the field writes of this call of create_basic_iso
iso_fields == create_basic_iso_fields(iso_args.system_id, iso_args.volume_id)

\* data = bytearray(0x10000)
IsoAlloc ==
    /\ spc.stage = "iso_alloc"
    /\ data' = bytearray(65536)
    /\ spc' = [spc EXCEPT !.stage = "iso_fields", !.k = 1]
    /\ UNCHANGED <<nv, harnessVars, checksum, files, dirs, iso_args>>

\* the next assignment to data
IsoWriteField ==
    /\ spc.stage = "iso_fields"
    /\ data' = apply_write(data, iso_fields[spc.k])
    /\ spc' = IF spc.k < Len(iso_fields)
              THEN [spc EXCEPT !.k = spc.k + 1]
              ELSE [spc EXCEPT !.stage = "iso_write_file", !.k = 0]
    /\ UNCHANGED <<nv, harnessVars, checksum, files, dirs, iso_args>>

\* with open(filepath, 'wb') as f: f.write(data)
IsoWriteFile ==
    /\ spc.stage = "iso_write_file"
    /\ files' = (IsoPath :> data) @@ files
    /\ spc' = [spc EXCEPT !.stage = "iso_done"]
    /\ UNCHANGED <<nv, harnessVars, data, checksum, dirs, iso_args>>

NextIso == IsoAlloc \/ IsoWriteField \/ IsoWriteFile

SpecIso == InitIso /\ [][NextIso]_vars

\* the first width bytes of an identifier, padded with blanks when shorter
truncated(id, width) == SubSeq(ljust(id, width, 32), 1, width)

\* C22: an identifier longer than its declared width is truncated by
\* dropping its trailing bytes: when create_basic_iso is called with a system
\* or volume identifier longer than 32 bytes, only the first 32 bytes of it
\* are written, the image stays exactly 0x10000 bytes long and every later
\* field stands at its declared offset.
C22_LongIdTruncated ==
    (spc.stage = "iso_done"
        /\ (Len(iso_args.system_id) > 32 \/ Len(iso_args.volume_id) > 32)) =>
        LET f == files[IsoPath]
        IN  /\ f.size = 65536
            /\ holds_field(f, [lo |-> iso_fields[5].lo,
                               bytes |-> truncated(iso_args.system_id, 32)])
            /\ holds_field(f, [lo |-> iso_fields[6].lo,
                               bytes |-> truncated(iso_args.volume_id, 32)])
            /\ \A i \in iso_fields[6].hi..(iso_fields[7].lo - 1) : byte_at(f, i) = 0
            /\ \A k \in 7..Len(iso_fields) : holds_field(f, iso_fields[k])

====
